---- MODULE Spec2Model ----
(***************************************************************************)
(* Model of pycam/io_py.py: the Witty Pi schedule file writer and reader   *)
(* (write_witty_schedule_file, read_witty_schedule_file).                  *)
(*                                                                         *)
(* A time argument is a datetime; all arguments of one call carry the same *)
(* date, so a datetime is modelled by its time of day in seconds since     *)
(* midnight and a timedelta by a (possibly negative) number of seconds.    *)
(* Text is modelled as a sequence of one-character strings, a file as the  *)
(* sequence of its lines, each line ending in the newline character.       *)
(***************************************************************************)
EXTENDS Integers, Sequences, FiniteSets, TLC

VARIABLES args, file, origin, ret, last, prev, cron, emis, geom, pi

vars == <<args, file, origin, ret, last, prev, cron, emis, geom, pi>>

\* The state of the parts of the program a specification leaves alone.
Idle == [last |-> "idle"]

(***************************************************************************)
(* Bounds of the model and the input times of day.                         *)
(***************************************************************************)
\* Number of off-grid times of day (with seconds) added to the scenario times.
NumGrid == 4

DaySeconds == 24 * 60 * 60

HMS(h, m, s) == h * 3600 + m * 60 + s

\* The whole-hour times of the documented scenarios.
ScenarioTimes == {HMS(6, 0, 0), HMS(9, 0, 0), HMS(18, 0, 0), HMS(20, 0, 0), HMS(21, 0, 0)}

\* Midnight and times of day with minute and second components: 00:00:00, 05:17:15,
\* 10:34:30, 15:51:45, ...
GridTimes == {(k * HMS(5, 17, 15)) % DaySeconds : k \in 0..(NumGrid - 1)}

Times == ScenarioTimes \cup GridTimes

\* Python's None and a present value, kept comparable with each other.
None == <<>>
Some(x) == <<x>>
Val(o) == o[1]

OptTimes == {Some(t) : t \in Times} \cup {None}

(***************************************************************************)
(* datetime accessors and string formatting.                               *)
(***************************************************************************)
Hour(t) == t \div 3600
Minute(t) == (t % 3600) \div 60
Second(t) == t % 60

DigitChars == <<"0", "1", "2", "3", "4", "5", "6", "7", "8", "9">>

Digit(d) == DigitChars[d + 1]

\* strftime's zero-padded two-digit fields %H, %M, %S.
Fmt02d(n) == <<Digit(n \div 10), Digit(n % 10)>>

\* strftime('%H:%M')
StrfHM(t) == Fmt02d(Hour(t)) \o <<":">> \o Fmt02d(Minute(t))

\* strftime('%H:%M:%S')
StrfHMS(t) == Fmt02d(Hour(t)) \o <<":">> \o Fmt02d(Minute(t)) \o <<":">> \o Fmt02d(Second(t))

RECURSIVE NatStr(_)
NatStr(n) == IF n < 10 THEN <<Digit(n)>> ELSE NatStr(n \div 10) \o <<Digit(n % 10)>>

IntStr(i) == IF i < 0 THEN <<"-">> \o NatStr(-i) ELSE NatStr(i)

\* The integer nearest to num/den (den > 0), a tie going to the even one:
\* the rounding of '{:.0f}'.format(num / den).
RoundHalfEven(num, den) ==
    LET q == num \div den
        r == num % den
    IN  IF 2 * r < den THEN q
        ELSE IF 2 * r > den THEN q + 1
        ELSE IF q % 2 = 0 THEN q ELSE q + 1

\* Variant of Fmt0f: the fraction is cut off (int(num / den)) instead of rounded.
Fmt0f_Trunc(num, den) == IntStr(num \div den)

\* '{:.0f}'.format(num / den)
Fmt0f(num, den) == IntStr(RoundHalfEven(num, den))

\* divmod(time_delt.total_seconds(), 60*60) followed by num_mins = rem / 60:
\* hours is the floor quotient, the minutes are rem / 60 with rem kept in seconds.
HoursMins(delt) == [hours |-> delt \div 3600, rem |-> delt % 3600]

\* strftime('%Y-%m-%d') of datetime.now(): one sample date of the clock.
DateNowStr == <<"2", "0", "2", "6", "-", "1", "1", "-", "0", "3">>

(***************************************************************************)
(* write_witty_schedule_file                                               *)
(***************************************************************************)
\* Variant of SingleDurations: the branch for time_off < time_on gives time_on - time_off
\* to the ON segment and the rest of the day to the OFF segment.
SingleDurations_Swapped(time_on, time_off) ==
    IF time_off - time_on > 0
    THEN [on |-> HoursMins(time_off - time_on), off |-> HoursMins(DaySeconds - (time_off - time_on))]
    ELSE IF time_off - time_on < 0
    THEN [on |-> HoursMins(time_on - time_off), off |-> HoursMins(DaySeconds - (time_on - time_off))]
    ELSE [on |-> [hours |-> 24, rem |-> 0], off |-> [hours |-> 0, rem |-> 0]]

\* Variant of SingleDurations: no branch for time_off < time_on, the ON duration is
\* time_off - time_on whatever its sign.
SingleDurations_NoWrap(time_on, time_off) ==
    IF time_off - time_on # 0
    THEN [on |-> HoursMins(time_off - time_on), off |-> HoursMins(DaySeconds - (time_off - time_on))]
    ELSE [on |-> [hours |-> 24, rem |-> 0], off |-> [hours |-> 0, rem |-> 0]]

\* Variant of SingleDurations: equal times give the always-off schedule.
SingleDurations_EqualOff(time_on, time_off) ==
    IF time_off - time_on > 0
    THEN [on |-> HoursMins(time_off - time_on), off |-> HoursMins(DaySeconds - (time_off - time_on))]
    ELSE IF time_off - time_on < 0
    THEN [on |-> HoursMins(DaySeconds - (time_on - time_off)), off |-> HoursMins(time_on - time_off)]
    ELSE [on |-> [hours |-> 0, rem |-> 0], off |-> [hours |-> 24, rem |-> 0]]

\* Single-window mode: the ON and OFF durations (num_hours_*, num_mins_*).
SingleDurations(time_on, time_off) ==
    IF time_off - time_on > 0
    THEN LET time_delt_on == time_off - time_on
             time_delt_off == DaySeconds - time_delt_on
         IN  [on |-> HoursMins(time_delt_on), off |-> HoursMins(time_delt_off)]
    ELSE IF time_off - time_on < 0
    THEN LET time_delt_off == time_on - time_off
             time_delt_on == DaySeconds - time_delt_off
         IN  [on |-> HoursMins(time_delt_on), off |-> HoursMins(time_delt_off)]
    ELSE [on |-> [hours |-> 24, rem |-> 0], off |-> [hours |-> 0, rem |-> 0]]

\* 'ON H{:.0f} M{:.0f}\n'.format(num_hours, num_mins)
SegLine(kind, hm) ==
    kind \o <<" ", "H">> \o Fmt0f(hm.hours, 1) \o <<" ", "M">> \o Fmt0f(hm.rem, 60) \o <<"\n">>

HeaderLine ==
    <<"#"," ","R","a","s","p","b","e","r","r","y"," ","P","i"," ","s","t","a","r","t","-","u","p","/",
      "s","h","u","t","-","d","o","w","n"," ","s","c","h","e","d","u","l","e"," ","s","c","r","i","p","t","\n">>

EndLine ==
    <<"E","N","D"," ","2","0","3","8","-","0","1","-","0","1"," ","1","2",":","0","0",":","0","0","\n">>

OnTimeLine(t) == <<"#"," ","o","n","_","t","i","m","e","=">> \o StrfHM(t) \o <<"\n">>
OffTimeLine(t) == <<"#"," ","o","f","f","_","t","i","m","e","=">> \o StrfHM(t) \o <<"\n">>
OnTime2Line(t) == <<"#"," ","o","n","_","t","i","m","e","_","2","=">> \o StrfHM(t) \o <<"\n">>
OffTime2Line(t) == <<"#"," ","o","f","f","_","t","i","m","e","_","2","=">> \o StrfHM(t) \o <<"\n">>

BeginLine(t) == <<"B","E","G","I","N"," ">> \o DateNowStr \o <<" ">> \o StrfHMS(t) \o <<"\n">>

\* The lines written in single-window mode.
SingleLines(time_on, time_off) ==
    LET d == SingleDurations(time_on, time_off)
    IN  << HeaderLine,
           OnTimeLine(time_on),
           OffTimeLine(time_off),
           BeginLine(time_on),
           EndLine,
           SegLine(<<"O","N">>, d.on),
           SegLine(<<"O","F","F">>, d.off) >>

\* Variant of DualOrder: the first window is always taken to start the cycle.
DualOrder_NoSwap(time_on, time_off, time_on_2, time_off_2) ==
    IF time_off > time_on
    THEN [start_1 |-> time_on, start_2 |-> time_on_2, stop_1 |-> time_off, stop_2 |-> time_off_2]
    ELSE [start_1 |-> time_on, start_2 |-> time_on_2, stop_1 |-> time_off_2, stop_2 |-> time_off]

\* Dual-window mode: the on and off times put in consecutive order.
DualOrder(time_on, time_off, time_on_2, time_off_2) ==
    IF time_on < time_on_2
    THEN IF time_off > time_on
         THEN [start_1 |-> time_on, start_2 |-> time_on_2, stop_1 |-> time_off, stop_2 |-> time_off_2]
         ELSE [start_1 |-> time_on, start_2 |-> time_on_2, stop_1 |-> time_off_2, stop_2 |-> time_off]
    ELSE IF time_off_2 > time_on_2
         THEN [start_1 |-> time_on_2, start_2 |-> time_on, stop_1 |-> time_off_2, stop_2 |-> time_off]
         ELSE [start_1 |-> time_on_2, start_2 |-> time_on, stop_1 |-> time_off, stop_2 |-> time_off_2]

\* Dual-window mode: the four durations from the ordered times.
DualDurations(o) ==
    LET time_delt_1 == o.stop_1 - o.start_1
        time_delt_2 == o.start_2 - o.stop_1
    IN  IF o.stop_2 > o.start_2
        THEN LET time_delt_3 == o.stop_2 - o.start_2
                 time_delt_4 == DaySeconds - (time_delt_1 + time_delt_2 + time_delt_3)
             IN  [on_1 |-> HoursMins(time_delt_1), off_1 |-> HoursMins(time_delt_2),
                  on_2 |-> HoursMins(time_delt_3), off_2 |-> HoursMins(time_delt_4)]
        ELSE LET time_delt_3 == o.start_1 - o.stop_2
                 time_delt_4 == DaySeconds - (time_delt_1 + time_delt_2 + time_delt_3)
             IN  [on_1 |-> HoursMins(time_delt_1), off_1 |-> HoursMins(time_delt_2),
                  on_2 |-> HoursMins(time_delt_4), off_2 |-> HoursMins(time_delt_3)]

\* Variant of DualLines: the BEGIN line carries time_on, as in single-window mode.
DualLines_BeginOn(time_on, time_off, time_on_2, time_off_2) ==
    LET o == DualOrder(time_on, time_off, time_on_2, time_off_2)
        d == DualDurations(o)
    IN  << HeaderLine,
           OnTimeLine(time_on),
           OffTimeLine(time_off),
           OnTime2Line(time_on_2),
           OffTime2Line(time_off_2),
           BeginLine(time_on),
           EndLine,
           SegLine(<<"O","N">>, d.on_1),
           SegLine(<<"O","F","F">>, d.off_1),
           SegLine(<<"O","N">>, d.on_2),
           SegLine(<<"O","F","F">>, d.off_2) >>

\* The lines written in dual-window mode.
DualLines(time_on, time_off, time_on_2, time_off_2) ==
    LET o == DualOrder(time_on, time_off, time_on_2, time_off_2)
        d == DualDurations(o)
    IN  << HeaderLine,
           OnTimeLine(time_on),
           OffTimeLine(time_off),
           OnTime2Line(time_on_2),
           OffTime2Line(time_off_2),
           BeginLine(o.start_1),
           EndLine,
           SegLine(<<"O","N">>, d.on_1),
           SegLine(<<"O","F","F">>, d.off_1),
           SegLine(<<"O","N">>, d.on_2),
           SegLine(<<"O","F","F">>, d.off_2) >>

\* Whether the call takes the single-window branch.
SingleMode(time_on_2, time_off_2) == time_off_2 = None \/ time_on_2 = None

\* Variant of WittyScheduleFile: in single-window mode a second on-time that was given
\* is still recorded in the comments.
WittyScheduleFile_KeepsGiven(time_on, time_off, time_on_2, time_off_2) ==
    IF SingleMode(time_on_2, time_off_2)
    THEN IF time_on_2 = None
         THEN SingleLines(time_on, time_off)
         ELSE SubSeq(SingleLines(time_on, time_off), 1, 3) \o <<OnTime2Line(Val(time_on_2))>>
                  \o SubSeq(SingleLines(time_on, time_off), 4, 7)
    ELSE DualLines(time_on, time_off, Val(time_on_2), Val(time_off_2))

\* The content write_witty_schedule_file leaves in the file.
WittyScheduleFile(time_on, time_off, time_on_2, time_off_2) ==
    IF SingleMode(time_on_2, time_off_2)
    THEN SingleLines(time_on, time_off)
    ELSE DualLines(time_on, time_off, Val(time_on_2), Val(time_off_2))

(***************************************************************************)
(* read_witty_schedule_file                                                *)
(***************************************************************************)
\* sub in s
Contains(sub, s) ==
    \E i \in 1..(Len(s) - Len(sub) + 1) : SubSeq(s, i, i + Len(sub) - 1) = sub

\* s.split(ch)
RECURSIVE Split(_, _)
Split(s, ch) ==
    IF \A i \in 1..Len(s) : s[i] # ch
    THEN <<s>>
    ELSE LET i == CHOOSE j \in 1..Len(s) : s[j] = ch /\ \A k \in 1..(j - 1) : s[k] # ch
         IN  <<SubSeq(s, 1, i - 1)>> \o Split(SubSeq(s, i + 1, Len(s)), ch)

IsDigit(c) == \E d \in 1..10 : DigitChars[d] = c

DigitVal(c) == (CHOOSE d \in 1..10 : DigitChars[d] = c) - 1

RECURSIVE DigitsVal(_)
DigitsVal(s) ==
    IF Len(s) = 0 THEN 0 ELSE 10 * DigitsVal(SubSeq(s, 1, Len(s) - 1)) + DigitVal(s[Len(s)])

\* int(x) of a string of decimal digits; None stands for the ValueError of any other string.
ParseInt(s) ==
    IF Len(s) > 0 /\ \A i \in 1..Len(s) : IsDigit(s[i]) THEN Some(DigitsVal(s)) ELSE None

\* line.split('=')[1].split('\n')[0] and [int(x) for x in ....split(':')] unpacked into two
\* names: the pair (hour, minute), or None for the ValueError of a text that is not two integers.
ParseHM(line) ==
    LET text == Split(Split(line, "=")[2], "\n")[1]
        parts == Split(text, ":")
    IN  IF Len(parts) # 2 THEN None
        ELSE IF ParseInt(parts[1]) = None \/ ParseInt(parts[2]) = None THEN None
        ELSE Some(<<ParseInt(parts[1]), ParseInt(parts[2])>>)

KeyOn == <<"o","n","_","t","i","m","e","=">>
KeyOff == <<"o","f","f","_","t","i","m","e","=">>
KeyOn2 == <<"o","n","_","t","i","m","e","_","2","=">>
KeyOff2 == <<"o","f","f","_","t","i","m","e","_","2","=">>

\* Variant of LineKey: the keys are looked for without their "=" sign.
LineKey_NoEquals(line) ==
    IF Contains(SubSeq(KeyOn, 1, Len(KeyOn) - 1), line) THEN "on"
    ELSE IF Contains(SubSeq(KeyOff, 1, Len(KeyOff) - 1), line) THEN "off"
    ELSE IF Contains(SubSeq(KeyOn2, 1, Len(KeyOn2) - 1), line) THEN "on_2"
    ELSE IF Contains(SubSeq(KeyOff2, 1, Len(KeyOff2) - 1), line) THEN "off_2"
    ELSE ""

\* The key whose branch of the if/elif chain a line takes, "" when it takes none.
LineKey(line) ==
    IF Contains(KeyOn, line) THEN "on"
    ELSE IF Contains(KeyOff, line) THEN "off"
    ELSE IF Contains(KeyOn2, line) THEN "on_2"
    ELSE IF Contains(KeyOff2, line) THEN "off_2"
    ELSE ""

Returned(v) == [kind |-> "return", val |-> v, exc |-> ""]
Raised(e) == [kind |-> "raise", val |-> None, exc |-> e]

NoTime == <<None, None>>

\* The loop over the lines of the file from line i on, loc holding the (hour, minute) locals.
RECURSIVE ReadLoop(_, _, _)
ReadLoop(lines, i, loc) ==
    IF i > Len(lines)
    THEN Returned(<<loc.on, loc.off, loc.on_2, loc.off_2>>)
    ELSE LET k == LineKey(lines[i])
         IN  IF k = "" THEN ReadLoop(lines, i + 1, loc)
             ELSE IF ParseHM(lines[i]) = None THEN Raised("ValueError")
             ELSE ReadLoop(lines, i + 1, [loc EXCEPT ![k] = Val(ParseHM(lines[i]))])

\* read_witty_schedule_file on a file with the given lines.
ReadWittyScheduleFile(lines) ==
    ReadLoop(lines, 1, [on |-> NoTime, off |-> NoTime, on_2 |-> NoTime, off_2 |-> NoTime])

(***************************************************************************)
(* The state machine: one schedule file, written, read, and edited by hand *)
(***************************************************************************)
ArgSets == [on : Times, off : Times, on_2 : OptTimes, off_2 : OptTimes]

\* open(filename, 'w') followed by the writes: whatever the file held is replaced.
\* Variant of OpenW: the file is opened for appending.
OpenW_Append(old, lines) == IF old = None THEN Some(lines) ELSE Some(Val(old) \o lines)

OpenW(old, lines) == Some(lines)

Init ==
    /\ args \in ArgSets
    /\ file = None
    /\ origin = "none"
    /\ ret = [kind |-> "none", val |-> None, exc |-> ""]
    /\ last = "init"
    /\ prev = "none"
    /\ cron = Idle
    /\ emis = Idle
    /\ geom = Idle
    /\ pi = Idle

\* write_witty_schedule_file(filename, time_on, time_off, time_on_2, time_off_2)
Write ==
    /\ file' = OpenW(file, WittyScheduleFile(args.on, args.off, args.on_2, args.off_2))
    /\ origin' = "written"
    /\ ret' = Returned(None)
    /\ last' = "write"
    /\ UNCHANGED <<args, prev, cron, emis, geom, pi>>

\* read_witty_schedule_file(filename)
Read ==
    /\ ret' = IF file = None THEN Raised("FileNotFoundError") ELSE ReadWittyScheduleFile(Val(file))
    /\ last' = "read"
    /\ UNCHANGED <<args, file, origin, prev, cron, emis, geom, pi>>

\* The file handed to the reader need not be the writer's: a line of it is deleted.
RemoveLine ==
    /\ origin = "written"
    /\ \E i \in 1..Len(Val(file)) :
           file' = Some(SubSeq(Val(file), 1, i - 1) \o SubSeq(Val(file), i + 1, Len(Val(file))))
    /\ origin' = "edited"
    /\ last' = "edit"
    /\ UNCHANGED <<args, ret, prev, cron, emis, geom, pi>>

Next == Write \/ Read \/ RemoveLine

Spec == Init /\ [][Next]_vars

(***************************************************************************)
(* The schedule file written again and again with other arguments          *)
(***************************************************************************)
\* Number of times of day the repeated calls draw their arguments from.
NumRewriteTimes == 3

RewriteTimes == {(k * HMS(5, 17, 15)) % DaySeconds : k \in 1..NumRewriteTimes}

RewriteArgSets ==
    [on : RewriteTimes, off : RewriteTimes,
     on_2 : {Some(t) : t \in RewriteTimes} \cup {None},
     off_2 : {Some(t) : t \in RewriteTimes} \cup {None}]

\* What a file holds before a call: no file, a single-window or a dual-window schedule.
ModeOf(a) == IF SingleMode(a.on_2, a.off_2) THEN "single" ELSE "dual"

InitRewrite ==
    /\ args \in RewriteArgSets
    /\ file = None
    /\ origin = "none"
    /\ ret = [kind |-> "none", val |-> None, exc |-> ""]
    /\ last = "init"
    /\ prev = "none"
    /\ cron = Idle
    /\ emis = Idle
    /\ geom = Idle
    /\ pi = Idle

\* write_witty_schedule_file(filename, a.on, a.off, a.on_2, a.off_2) on the same filename;
\* prev records which form of schedule the call found in the file.
WriteAgain ==
    \E a \in RewriteArgSets :
        /\ args' = a
        /\ file' = OpenW(file, WittyScheduleFile(a.on, a.off, a.on_2, a.off_2))
        /\ origin' = "written"
        /\ ret' = Returned(None)
        /\ last' = "write"
        /\ prev' = IF file = None THEN "none" ELSE ModeOf(args)
        /\ UNCHANGED <<cron, emis, geom, pi>>

NextRewrite == WriteAgain \/ Read

SpecRewrite == InitRewrite /\ [][NextRewrite]_vars

(***************************************************************************)
(* Reading the emitted ON/OFF lines back, for the properties below.        *)
(***************************************************************************)
\* The signed integer a decimal text denotes.
SignedVal(s) == IF s[1] = "-" THEN 0 - DigitsVal(Tail(s)) ELSE DigitsVal(s)

IsSegLine(line) == line[1] = "O"

\* 'ON H<h> M<m>\n' as [kind, h, m].
ParseSeg(line) ==
    LET parts == Split(SubSeq(line, 1, Len(line) - 1), " ")
    IN  [kind |-> parts[1], h |-> SignedVal(Tail(parts[2])), m |-> SignedVal(Tail(parts[3]))]

RECURSIVE SegsOf(_)
SegsOf(lines) ==
    IF lines = <<>> THEN <<>>
    ELSE IF IsSegLine(Head(lines)) THEN <<ParseSeg(Head(lines))>> \o SegsOf(Tail(lines))
    ELSE SegsOf(Tail(lines))

\* The segments of the schedule file, in file order.
Segs == SegsOf(Val(file))

\* The duration an emitted segment denotes, in seconds.
Dur(seg) == seg.h * 3600 + seg.m * 60

RECURSIVE SumDur(_)
SumDur(segs) == IF segs = <<>> THEN 0 ELSE Dur(Head(segs)) + SumDur(Tail(segs))

ON == <<"O", "N">>
OFF == <<"O", "F", "F">>

\* The file is the output of the call with the arguments args.
Written == origin = "written"
Single == SingleMode(args.on_2, args.off_2)
Dual == ~Single

\* a - b as a cyclic difference of times of day.
CycDiff(a, b) == (a - b) % DaySeconds

WholeMinute(t) == Second(t) = 0

\* The arguments of a dual-window call, the second window unwrapped.
A == [on |-> args.on, off |-> args.off, on_2 |-> Val(args.on_2), off_2 |-> Val(args.off_2)]

\* t lies in the daily window [on, off), which may wrap past midnight.
InWindow(t, on, off) == CycDiff(t, on) < CycDiff(off, on)

\* Two windows of non-zero length that share no time of day.
NonOverlapping(on1, off1, on2, off2) ==
    /\ on1 # off1
    /\ on2 # off2
    /\ ~InWindow(on2, on1, off1)
    /\ ~InWindow(on1, on2, off2)

NonOverlap == NonOverlapping(A.on, A.off, A.on_2, A.off_2)

AllWholeMinutes == \A t \in {A.on, A.off, A.on_2, A.off_2} : WholeMinute(t)

\* A duration in seconds rounded to the nearest whole minute, a half minute going to
\* the even minute.
ToMinute(d) == 60 * RoundHalfEven(d, 60)

Seg(kind, h, m) == [kind |-> kind, h |-> h, m |-> m]

FourSegments ==
    /\ Len(Segs) = 4
    /\ Segs[1].kind = ON /\ Segs[2].kind = OFF /\ Segs[3].kind = ON /\ Segs[4].kind = OFF

(***************************************************************************)
(* C1. Single-window mode, on # off: the emitted ON and OFF durations sum  *)
(* to exactly 24 hours.                                                    *)
(***************************************************************************)
C1_SingleSumsToDay ==
    (Written /\ Single /\ args.on # args.off) =>
        /\ Len(Segs) = 2
        /\ Segs[1].kind = ON /\ Segs[2].kind = OFF
        /\ SumDur(Segs) = DaySeconds

\* A single-window schedule that wraps past midnight, from a time with seconds whose
\* ON duration is rounded.
C1_Witness ==
    /\ Written /\ Single /\ args.off < args.on /\ ~WholeMinute(args.on)
    /\ Dur(Segs[1]) # CycDiff(args.off, args.on)

(***************************************************************************)
(* C2. Single-window mode, on # off: the emitted ON duration equals        *)
(* (off - on) mod 24h and the OFF duration equals 24h minus it.            *)
(***************************************************************************)
\* C2 as stated: the emitted durations are the exact differences.
C2_Original ==
    (Written /\ Single /\ args.on # args.off) =>
        /\ Dur(Segs[1]) = CycDiff(args.off, args.on)
        /\ Dur(Segs[2]) = DaySeconds - CycDiff(args.off, args.on)

\* C2 as amended: the emitted ON duration is (off - on) mod 24h rounded to the nearest
\* whole minute (the exact difference when neither time has seconds), and the emitted
\* OFF duration is 24h minus the emitted ON duration.
C2_SingleDurationsToMinute ==
    (Written /\ Single /\ args.on # args.off) =>
        /\ Segs[1].kind = ON /\ Segs[2].kind = OFF
        /\ Dur(Segs[1]) = ToMinute(CycDiff(args.off, args.on))
        /\ Dur(Segs[2]) = DaySeconds - Dur(Segs[1])
        /\ (WholeMinute(args.on) /\ WholeMinute(args.off)) =>
               /\ Dur(Segs[1]) = CycDiff(args.off, args.on)
               /\ (args.on < args.off => Dur(Segs[1]) = args.off - args.on)
               /\ (args.on > args.off => Dur(Segs[2]) = args.on - args.off)

\* A whole-minute schedule with off before on, written.
C2_Witness ==
    /\ Written /\ Single /\ args.on > args.off
    /\ WholeMinute(args.on) /\ WholeMinute(args.off)
    /\ Dur(Segs[2]) = args.on - args.off

(***************************************************************************)
(* C3. on=20:00, off=06:00 in single-window mode: an OFF segment of 10h 0m *)
(* and an ON segment of 14h 0m.                                            *)
(***************************************************************************)
OnEightPmOffSixAm == Written /\ Single /\ args.on = HMS(20, 0, 0) /\ args.off = HMS(6, 0, 0)

\* C3 as stated.
C3_Original ==
    OnEightPmOffSixAm => Segs = <<Seg(ON, 14, 0), Seg(OFF, 10, 0)>>

\* C3 as amended: the ON segment is 10h 0m (from 20:00 to 06:00) and the OFF segment 14h 0m.
C3_EightPmToSixAm ==
    OnEightPmOffSixAm => Segs = <<Seg(ON, 10, 0), Seg(OFF, 14, 0)>>

C3_Witness == OnEightPmOffSixAm /\ last = "write"

(***************************************************************************)
(* C4. Dual-window mode, non-overlapping windows: exactly four segments    *)
(* ON, OFF, ON, OFF whose durations sum to exactly 24 hours.               *)
(***************************************************************************)
C4_Claim ==
    (Written /\ Dual /\ NonOverlap) => (FourSegments /\ SumDur(Segs) = DaySeconds)

(***************************************************************************)
(* C5. Dual-window mode, non-overlapping windows: ON1 = stop_1 - start_1,  *)
(* OFF1 = start_2 - stop_1, ON2 = (stop_2 - start_2) mod 24h,              *)
(* OFF2 = (start_1 - stop_2) mod 24h, whichever window is passed first;    *)
(* 06:00-09:00 and 18:00-21:00 give ON 3h, OFF 9h, ON 3h, OFF 9h.          *)
(***************************************************************************)
\* The window with the earlier on-time and the other one.
Window1 == IF A.on < A.on_2 THEN [start |-> A.on, stop |-> A.off] ELSE [start |-> A.on_2, stop |-> A.off_2]
Window2 == IF A.on < A.on_2 THEN [start |-> A.on_2, stop |-> A.off_2] ELSE [start |-> A.on, stop |-> A.off]

\* The four durations of the claim, in seconds.
ExactDurations ==
    << Window1.stop - Window1.start,
       Window2.start - Window1.stop,
       CycDiff(Window2.stop, Window2.start),
       CycDiff(Window1.start, Window2.stop) >>

EmittedDurations == [i \in 1..4 |-> Dur(Segs[i])]

\* The segments emitted when the two windows are passed in the other order.
SwappedSegs == SegsOf(WittyScheduleFile(A.on_2, A.off_2, Some(A.on), Some(A.off)))

MorningEvening ==
    /\ {<<A.on, A.off>>, <<A.on_2, A.off_2>>} =
           {<<HMS(6, 0, 0), HMS(9, 0, 0)>>, <<HMS(18, 0, 0), HMS(21, 0, 0)>>}

\* C5 as stated: the emitted durations are the exact differences.
C5_Original ==
    (Written /\ Dual /\ NonOverlap) => EmittedDurations = ExactDurations

\* C5 as amended: each emitted duration is the stated difference rounded to the nearest
\* whole minute (the exact difference when no time has seconds); the result does not
\* depend on the order of the windows, and the example holds as stated.
C5_DualDurationsToMinute ==
    (Written /\ Dual /\ NonOverlap) =>
        /\ FourSegments
        /\ EmittedDurations = [i \in 1..4 |-> ToMinute(ExactDurations[i])]
        /\ (AllWholeMinutes => EmittedDurations = ExactDurations)
        /\ SwappedSegs = Segs
        /\ (MorningEvening =>
               Segs = <<Seg(ON, 3, 0), Seg(OFF, 9, 0), Seg(ON, 3, 0), Seg(OFF, 9, 0)>>)

\* The later window passed first and wrapping past midnight.
C5_Witness ==
    /\ Written /\ Dual /\ NonOverlap
    /\ A.on_2 < A.on /\ A.off < A.on
    /\ EmittedDurations[3] > 0 /\ EmittedDurations[4] > 0

(***************************************************************************)
(* C6. Dual-window mode, overlapping or degenerate windows: the call fails *)
(* with an error and writes no schedule.                                   *)
(***************************************************************************)
C6_Claim ==
    (last = "write" /\ Dual /\ ~NonOverlap) => (ret.kind = "raise" /\ file = None)

(***************************************************************************)
(* C7. Dual-window mode: whenever a schedule is emitted, each of the four  *)
(* durations is non-negative and at most 24h, no hour or minute count is   *)
(* negative.                                                               *)
(***************************************************************************)
C7_Claim ==
    (Written /\ Dual) =>
        \A i \in 1..Len(Segs) :
            Segs[i].h >= 0 /\ Segs[i].m >= 0 /\ Dur(Segs[i]) >= 0 /\ Dur(Segs[i]) <= DaySeconds

(***************************************************************************)
(* C8. Single-window mode, on = off: no always-on or always-off schedule   *)
(* is emitted silently.                                                    *)
(***************************************************************************)
AlwaysOn == file # None /\ Segs = <<Seg(ON, 24, 0), Seg(OFF, 0, 0)>>
AlwaysOff == file # None /\ Len(Segs) = 2 /\ Dur(Segs[1]) = 0 /\ Dur(Segs[2]) = DaySeconds

\* C8 as stated.
C8_Original ==
    (last = "write" /\ Single /\ args.on = args.off) => (~AlwaysOn /\ ~AlwaysOff)

\* C8 as amended: with on = off the call returns normally and the file holds the
\* always-on schedule, ON H24 M0 and OFF H0 M0, beginning at the on-time.
C8_EqualTimesAlwaysOn ==
    (last = "write" /\ Single /\ args.on = args.off) =>
        /\ ret = Returned(None)
        /\ AlwaysOn
        /\ Val(file)[4] = BeginLine(args.on)

C8_Witness == last = "write" /\ Single /\ args.on = args.off /\ ~WholeMinute(args.on)

(***************************************************************************)
(* C9. Round trip: reading a written file returns the on/off times of the  *)
(* call to the minute, in the positions of the arguments (in dual-window   *)
(* mode the second window too), not in start/stop order.                   *)
(***************************************************************************)
HourMinute(t) == <<Some(Hour(t)), Some(Minute(t))>>

C9_RoundTrip ==
    (last = "read" /\ Written) =>
        /\ ret.kind = "return"
        /\ ret.val[1] = HourMinute(args.on)
        /\ ret.val[2] = HourMinute(args.off)
        /\ Dual => (ret.val[3] = HourMinute(A.on_2) /\ ret.val[4] = HourMinute(A.off_2))

\* A dual-window file read back whose second window starts first, with seconds in a time.
C9_Witness ==
    /\ last = "read" /\ Written /\ Dual
    /\ A.on_2 < A.on /\ A.off_2 # A.off
    /\ ~WholeMinute(A.on)
    /\ ret.val[3] = HourMinute(A.on_2)

(***************************************************************************)
(* C10. Reading a file without its on_time= (or off_time=) comment fails   *)
(* with an error; no result with absent values is returned.                *)
(***************************************************************************)
HasLine(key) == \E i \in 1..Len(Val(file)) : Contains(key, Val(file)[i])

C10_Claim ==
    (last = "read" /\ file # None /\ (~HasLine(KeyOn) \/ ~HasLine(KeyOff))) =>
        ret.kind = "raise"

(***************************************************************************)
(* C11. The reader returns second-window values if and only if the file    *)
(* was written with both time_on_2 and time_off_2; with only one of them   *)
(* given it returns (None, None) for both second-window entries.           *)
(***************************************************************************)
C11_SecondWindowIffDual ==
    (last = "read" /\ Written) =>
        /\ ret.kind = "return"
        /\ Dual <=> (ret.val[3] # NoTime /\ ret.val[4] # NoTime)
        /\ Single => (ret.val[3] = NoTime /\ ret.val[4] = NoTime)
        /\ Dual => (None \notin {ret.val[3][1], ret.val[3][2], ret.val[4][1], ret.val[4][2]})

\* A file written with time_on_2 but without time_off_2, read back.
C11_Witness ==
    /\ last = "read" /\ Written
    /\ args.on_2 # None /\ args.off_2 = None
    /\ ret.val[3] = NoTime

(***************************************************************************)
(* C12. The BEGIN line carries the start of the first ON segment: time_on  *)
(* in single-window mode, the earlier of time_on and time_on_2 in          *)
(* dual-window mode; the first segment listed is an ON segment.            *)
(***************************************************************************)
\* 'HH:MM:SS' as seconds since midnight.
ClockVal(text) ==
    LET parts == Split(text, ":")
    IN  HMS(DigitsVal(parts[1]), DigitsVal(parts[2]), DigitsVal(parts[3]))

IsBeginLine(line) == line[1] = "B"

\* The time of day of the file's BEGIN line.
BeginTime ==
    LET i == CHOOSE j \in 1..Len(Val(file)) : IsBeginLine(Val(file)[j])
        line == Val(file)[i]
    IN  ClockVal(Split(SubSeq(line, 1, Len(line) - 1), " ")[3])

Earlier(a, b) == IF a < b THEN a ELSE b

C12_BeginAtFirstOn ==
    Written =>
        /\ Cardinality({j \in 1..Len(Val(file)) : IsBeginLine(Val(file)[j])}) = 1
        /\ Single => BeginTime = args.on
        /\ Dual => BeginTime = Earlier(A.on, A.on_2)
        /\ Segs[1].kind = ON

\* A dual-window file whose second window has the earlier on-time.
C12_Witness == Written /\ Dual /\ A.on_2 < A.on /\ BeginTime = A.on_2

(***************************************************************************)
(* C15. Dual-window mode, any four times: stop_1 is the first of the two   *)
(* off-times that follows start_1 (the earlier on-time), the other         *)
(* off-time is stop_2.                                                     *)
(***************************************************************************)
Order == DualOrder(A.on, A.off, A.on_2, A.off_2)

\* The time that elapses from start_1 to the next occurrence of the off-time t.
UntilOff(t) == IF CycDiff(t, Order.start_1) = 0 THEN DaySeconds ELSE CycDiff(t, Order.start_1)

\* The off-time that comes first after start_1, x when both come at once.
FirstOffAfterStart(x, y) == IF UntilOff(x) <= UntilOff(y) THEN x ELSE y

C15_Claim ==
    (Written /\ Dual) =>
        /\ Order.start_1 = Earlier(A.on, A.on_2)
        /\ Order.stop_1 = FirstOffAfterStart(A.off, A.off_2)
        /\ {Order.stop_1, Order.stop_2} = {A.off, A.off_2}

\* C15 restricted to non-overlapping windows.
C15_NonOverlapping ==
    (Written /\ Dual /\ NonOverlap) =>
        /\ Order.start_1 = Earlier(A.on, A.on_2)
        /\ Order.stop_1 = FirstOffAfterStart(A.off, A.off_2)
        /\ {Order.stop_1, Order.stop_2} = {A.off, A.off_2}

(***************************************************************************)
(* C16. Create-or-truncate: after any sequence of writes to the file, the  *)
(* reader reflects only the last write; after a single-window write that   *)
(* follows a dual-window write no second-window value is readable.         *)
(***************************************************************************)
\* What the reader returns for a file that holds the last call's schedule and nothing else.
LastWriteOnly ==
    Returned(<< HourMinute(args.on), HourMinute(args.off),
                IF Dual THEN HourMinute(A.on_2) ELSE NoTime,
                IF Dual THEN HourMinute(A.off_2) ELSE NoTime >>)

C16_ReadsLastWriteOnly ==
    /\ Written => file = Some(WittyScheduleFile(args.on, args.off, args.on_2, args.off_2))
    /\ (last = "read" /\ Written) => ret = LastWriteOnly
    /\ (last = "read" /\ Written /\ Single) => (ret.val[3] = NoTime /\ ret.val[4] = NoTime)

\* A single-window schedule written over a dual-window one, read back.
C16_Witness ==
    /\ last = "read" /\ Written /\ Single /\ prev = "dual"
    /\ ret.val[3] = NoTime

(***************************************************************************)
(* write_script_crontab and read_script_crontab                            *)
(***************************************************************************)
\* Longest list of commands, and of times, a call is given.
MaxCmds == 2

CronHeaderLine ==
    <<"#"," ","C","r","o","n","t","a","b"," ","s","c","h","e","d","u","l","e"," ","f","i","l","e"," ",
      "w","r","i","t","t","e","n"," ","b","y"," ","p","y","c","a","m","\n">>

CronPathLine ==
    <<"P","A","T","H","=","/","u","s","r","/","l","o","c","a","l","/","s","b","i","n",":",
      "/","u","s","r","/","l","o","c","a","l","/","b","i","n",":","/","s","b","i","n",":",
      "/","b","i","n",":","/","u","s","r","/","s","b","i","n",":","/","u","s","r","/","b","i","n","\n">>

\* A time_on entry: a datetime (its time of day t) or a string s in crontab format.
DateTime(t) == [dt |-> TRUE, t |-> t, s |-> <<>>]
TimeString(s) == [dt |-> FALSE, t |-> 0, s |-> s]

\* Variant of CronTimeStr: the hour is written before the minute.
CronTimeStr_HourFirst(time_obj) ==
    IF time_obj.dt
    THEN Fmt02d(Hour(time_obj.t)) \o <<" ">> \o Fmt02d(Minute(time_obj.t)) \o <<" ","*"," ","*"," ","*"," ">>
    ELSE time_obj.s \o <<" ">>

\* '{} * * * '.format(time_obj.strftime('%M %H')) for a datetime, time_obj + ' ' otherwise.
CronTimeStr(time_obj) ==
    IF time_obj.dt
    THEN Fmt02d(Minute(time_obj.t)) \o <<" ">> \o Fmt02d(Hour(time_obj.t)) \o <<" ","*"," ","*"," ","*"," ">>
    ELSE time_obj.s \o <<" ">>

\* The line written for one command.
CronLine(time_obj, command) == CronTimeStr(time_obj) \o command \o <<"\n">>

\* Variant of CrontabFile: the file is opened before the lengths are compared.
CrontabFile_OpenFirst(old, cmd, time_on) ==
    IF Len(cmd) # Len(time_on)
    THEN Some(<<>>)
    ELSE Some(<<CronHeaderLine, CronPathLine>> \o [i \in 1..Len(cmd) |-> CronLine(time_on[i], cmd[i])])

\* The file after write_script_crontab(filename, cmd, time_on), old being the file before.
CrontabFile(old, cmd, time_on) ==
    IF Len(cmd) # Len(time_on)
    THEN old
    ELSE OpenW(old, <<CronHeaderLine, CronPathLine>> \o [i \in 1..Len(cmd) |-> CronLine(time_on[i], cmd[i])])

IsSpace(c) == c = " " \/ c = "\n"

\* line.split(): the runs of characters between white space.
RECURSIVE SplitWs(_)
SplitWs(s) ==
    IF s = <<>> THEN <<>>
    ELSE IF IsSpace(s[1]) THEN SplitWs(Tail(s))
    ELSE IF \A i \in 1..Len(s) : ~IsSpace(s[i]) THEN <<s>>
    ELSE LET i == CHOOSE j \in 1..Len(s) : IsSpace(s[j]) /\ \A k \in 1..(j - 1) : ~IsSpace(s[k])
         IN  <<SubSeq(s, 1, i - 1)>> \o SplitWs(SubSeq(s, i, Len(s)))

\* The (hour, minute) entry a line gives, None for the ValueError of a line without two
\* fields or with a field int() does not take.
CronEntry(line) ==
    LET fields == SplitWs(line)
    IN  IF Len(fields) < 2 THEN None
        ELSE LET minute0 == fields[1]
                 hour0 == fields[2]
                 hourly == hour0 = <<"*">>
                 hour1 == IF hourly THEN <<"0">> ELSE hour0
                 minute1 == IF hourly
                            THEN IF minute0 = <<"0">>
                                 THEN <<"6", "0">>
                                 ELSE Split(minute0, "/")[Len(Split(minute0, "/"))]
                            ELSE minute0
                 commented == line[1] = "#"
                 hour2 == IF commented THEN <<"0">> ELSE hour1
                 minute2 == IF commented THEN <<"0">> ELSE minute1
             IN  IF ParseInt(hour2) = None \/ ParseInt(minute2) = None THEN None
                 ELSE Some(<<Val(ParseInt(hour2)), Val(ParseInt(minute2))>>)

\* times[cmd] = v
DictSet(times, cmd, v) ==
    [c \in (DOMAIN times) \cup {cmd} |-> IF c = cmd THEN v ELSE times[c]]

\* cmd in line
CmdInLine(cmd, line) == Contains(cmd, line)

\* The two loops of read_script_crontab from line i and command j on.
RECURSIVE CronReadLoop(_, _, _, _, _)
CronReadLoop(lines, cmds, i, j, times) ==
    IF i > Len(lines) THEN Returned(times)
    ELSE IF j > Len(cmds) THEN CronReadLoop(lines, cmds, i + 1, 1, times)
    ELSE IF ~CmdInLine(cmds[j], lines[i]) THEN CronReadLoop(lines, cmds, i, j + 1, times)
    ELSE IF CronEntry(lines[i]) = None THEN Raised("ValueError")
    ELSE CronReadLoop(lines, cmds, i, j + 1, DictSet(times, cmds[j], Val(CronEntry(lines[i]))))

\* read_script_crontab(filename, cmds) on a file with the given lines.
ReadScriptCrontab(lines, cmds) == CronReadLoop(lines, cmds, 1, 1, <<>>)

\* The commands and times the calls are given.
CronCmds ==
    { <<"r","u","n">>, <<"r","u","n","2">>, <<"l","o","g">>, <<"/","b","i","n">>,
      <<"p","y","c","a","m">> }

CronTimes ==
    { DateTime(HMS(7, 5, 0)), DateTime(HMS(23, 0, 30)),
      TimeString(<<"*","/","5"," ","*"," ","*"," ","*"," ","*">>) }

SeqsUpTo(S, n) == UNION {[1..k -> S] : k \in 0..n}

\* The earlier call that left a crontab file behind.
SeedCmd == << <<"l","o","g">> >>
SeedTimes == << DateTime(HMS(6, 30, 0)) >>

InitCron ==
    /\ cron \in [file : {None}, origin : {"none"}, before : {None},
                 cmd : SeqsUpTo(CronCmds, MaxCmds), time_on : SeqsUpTo(CronTimes, MaxCmds),
                 ret : {[kind |-> "none", val |-> None, exc |-> ""]}, last : {"init"}]
    /\ args = [on |-> 0, off |-> 0, on_2 |-> None, off_2 |-> None]
    /\ file = None
    /\ origin = "none"
    /\ ret = [kind |-> "none", val |-> None, exc |-> ""]
    /\ last = "idle"
    /\ prev = "none"
    /\ emis = Idle
    /\ geom = Idle
    /\ pi = Idle

schedVars == <<args, file, origin, ret, last, prev>>

\* An earlier write_script_crontab(filename, SeedCmd, SeedTimes).
CronSeed ==
    /\ cron.last = "init"
    /\ cron' = [cron EXCEPT !.file = CrontabFile(cron.file, SeedCmd, SeedTimes),
                            !.origin = "seed", !.last = "seed", !.ret = Returned(None)]
    /\ UNCHANGED <<schedVars, emis, geom, pi>>

\* write_script_crontab(filename, cmd, time_on)
CronWrite ==
    /\ cron' = [cron EXCEPT !.before = cron.file,
                            !.file = CrontabFile(cron.file, cron.cmd, cron.time_on),
                            !.origin = IF Len(cron.cmd) # Len(cron.time_on) THEN cron.origin ELSE "call",
                            !.last = "write", !.ret = Returned(None)]
    /\ UNCHANGED <<schedVars, emis, geom, pi>>

\* read_script_crontab(filename, cmd)
CronRead ==
    /\ cron' = [cron EXCEPT !.ret = IF cron.file = None THEN Raised("FileNotFoundError")
                                    ELSE ReadScriptCrontab(Val(cron.file), cron.cmd),
                            !.last = "read"]
    /\ UNCHANGED <<schedVars, emis, geom, pi>>

NextCron == CronSeed \/ CronWrite \/ CronRead

SpecCron == InitCron /\ [][NextCron]_vars

(***************************************************************************)
(* C17. write_script_crontab with lists of different lengths writes        *)
(* nothing: the file is neither created nor truncated, its previous        *)
(* content is unchanged.                                                   *)
(***************************************************************************)
LengthsDiffer == Len(cron.cmd) # Len(cron.time_on)

C17_MismatchWritesNothing ==
    (cron.last = "write" /\ LengthsDiffer) => cron.file = cron.before

\* A mismatched call on a file that an earlier call wrote.
C17_Witness ==
    /\ cron.last = "write" /\ LengthsDiffer
    /\ cron.before # None /\ cron.file = CrontabFile(None, SeedCmd, SeedTimes)

\* A mismatched call with no file there.
C17_WitnessNoFile == cron.last = "write" /\ LengthsDiffer /\ cron.file = None

(***************************************************************************)
(* C18. Round trip of the crontab file: for pairwise distinct commands and *)
(* as many datetime times, the reader returns for each command the (hour,  *)
(* minute) of its time.                                                    *)
(***************************************************************************)
Distinct(seq) == \A i, j \in 1..Len(seq) : i # j => seq[i] # seq[j]

AllDateTimes == \A i \in 1..Len(cron.time_on) : cron.time_on[i].dt

\* The file is the one the call wrote and it has just been read with the call's commands.
CronReadBack ==
    /\ cron.last = "read" /\ cron.origin = "call" /\ ~LengthsDiffer
    /\ Distinct(cron.cmd) /\ AllDateTimes

EachCommandItsTime ==
    /\ cron.ret.kind = "return"
    /\ DOMAIN cron.ret.val = {cron.cmd[i] : i \in 1..Len(cron.cmd)}
    /\ \A i \in 1..Len(cron.cmd) :
           cron.ret.val[cron.cmd[i]] = <<Hour(cron.time_on[i].t), Minute(cron.time_on[i].t)>>

\* C18 as stated.
C18_Original == CronReadBack => EachCommandItsTime

\* No command occurs in the PATH line or in the line written for another command.
NoCommandInOtherLine ==
    \A i \in 1..Len(cron.cmd) :
        /\ ~Contains(cron.cmd[i], CronPathLine)
        /\ \A j \in 1..Len(cron.cmd) :
               j # i => ~Contains(cron.cmd[i], CronLine(cron.time_on[j], cron.cmd[j]))

\* C18 as amended: the round trip holds when, besides, no command occurs in the PATH
\* line of the file or in the line written for another command.
C18_RoundTripNoClash == (CronReadBack /\ NoCommandInOtherLine) => EachCommandItsTime

\* Two commands with different times read back, one of them occurring in the header comment.
C18_Witness ==
    /\ CronReadBack /\ NoCommandInOtherLine
    /\ Len(cron.cmd) = 2 /\ cron.time_on[1] # cron.time_on[2]
    /\ Contains(cron.cmd[2], CronHeaderLine)

(***************************************************************************)
(* save_emission_rates_as_txt, for one line and one flow mode               *)
(***************************************************************************)
\* Longest emission series, and the number of dates its samples are taken from.
MaxSamples == 3
NumDays == 2

\* A datetime: the date as a day number, and the time of day with its microsecond.
At(d, h, m, s, us) == [day |-> d, hour |-> h, minute |-> m, second |-> s, microsecond |-> us]

\* The sample times _start_acq is filled from: the first and the last second of
\* three hours of the day, on the second or half a second after it.
EmisTimes ==
    { At(d, h, ms[1], ms[2], us) :
        d \in 0..(NumDays - 1), h \in {0, 1, 23},
        ms \in {<<0, 0>>, <<59, 59>>}, us \in {0, 500000} }

SecondsOf(t) == ((t.day * 24 + t.hour) * 60 + t.minute) * 60 + t.second

\* a <= b on datetimes
Leq(a, b) ==
    \/ SecondsOf(a) < SecondsOf(b)
    \/ SecondsOf(a) = SecondsOf(b) /\ a.microsecond <= b.microsecond

\* start_time.replace(hour=hour, minute=minute, second=second)
Replace(t, h, m, s) == [t EXCEPT !.hour = h, !.minute = m, !.second = s]

\* The rows saved to the file of an hour: the samples from file_start_time to file_end_time.
FileRows(series, hour) ==
    LET start_time == series[1]
        file_start_time == Replace(start_time, hour, 0, 0)
        file_end_time == Replace(start_time, hour, 59, 59)
        Selected(t) == Leq(file_start_time, t) /\ Leq(t, file_end_time)
    IN  SelectSeq(series, Selected)

\* range(start_time_hr, end_time_hr + 1), after the step back that save_all=False makes.
FileHours(series, save_all) ==
    LET start_time_hr == series[1].hour
        end_time_hr == series[Len(series)].hour - (IF save_all THEN 0 ELSE 1)
    IN  IF ~save_all /\ end_time_hr < start_time_hr THEN {} ELSE start_time_hr..end_time_hr

\* os.path.exists(pathname) for the file named after a date and an hour.
Exists(files, d, h) == \E f \in files : f.day = d /\ f.hour = h

\* Variant of SavedFiles: a file that exists is written again.
SavedFiles_Overwrite(files, series, save_all) ==
    IF Len(series) = 0 THEN files
    ELSE LET new == { [day |-> series[1].day, hour |-> h, rows |-> FileRows(series, h)] :
                        h \in FileHours(series, save_all) }
         IN  {f \in files : ~Exists(new, f.day, f.hour)} \cup new

\* The files after save_emission_rates_as_txt(path, emission_dict, save_all).
SavedFiles(files, series, save_all) ==
    IF Len(series) = 0 THEN files
    ELSE files \cup
         { [day |-> series[1].day, hour |-> h, rows |-> FileRows(series, h)] :
             h \in {g \in FileHours(series, save_all) : ~Exists(files, series[1].day, g)} }

InitEmis ==
    /\ emis = [series |-> <<>>, files |-> {}, before |-> {}, save_all |-> FALSE,
               only_complete |-> TRUE, last |-> "init"]
    /\ args = [on |-> 0, off |-> 0, on_2 |-> None, off_2 |-> None]
    /\ file = None
    /\ origin = "none"
    /\ ret = [kind |-> "none", val |-> None, exc |-> ""]
    /\ last = "idle"
    /\ prev = "none"
    /\ cron = Idle
    /\ geom = Idle
    /\ pi = Idle

\* The analysis appends the next sample to the time-sorted series.
EmisAppend ==
    /\ Len(emis.series) < MaxSamples
    /\ \E t \in EmisTimes :
          /\ IF emis.series = <<>> THEN TRUE ELSE Leq(emis.series[Len(emis.series)], t)
          /\ emis' = [emis EXCEPT !.series = Append(emis.series, t), !.last = "append"]
    /\ UNCHANGED <<schedVars, cron, geom, pi>>

\* save_emission_rates_as_txt(path, emission_dict, save_all)
EmisSave ==
    /\ \E save_all \in BOOLEAN :
          emis' = [emis EXCEPT !.before = emis.files,
                               !.files = SavedFiles(emis.files, emis.series, save_all),
                               !.save_all = save_all,
                               !.only_complete = emis.only_complete /\ ~save_all,
                               !.last = "save"]
    /\ UNCHANGED <<schedVars, cron, geom, pi>>

NextEmis == EmisAppend \/ EmisSave

SpecEmis == InitEmis /\ [][NextEmis]_vars

(***************************************************************************)
(* C13. With save_all=True the entire series is saved: every sample of a   *)
(* non-empty, time-sorted series falls in the hour of a file that exists   *)
(* after the call, also when the series crosses midnight.                  *)
(***************************************************************************)
SavedAll == emis.last = "save" /\ emis.save_all /\ emis.series # <<>>

C13_Claim ==
    SavedAll =>
        \A i \in 1..Len(emis.series) :
            Exists(emis.files, emis.series[i].day, emis.series[i].hour)

(***************************************************************************)
(* C19. save_emission_rates_as_txt never overwrites: a file that exists    *)
(* before the call is there with the same content after it, for either     *)
(* value of save_all.                                                      *)
(***************************************************************************)
C19_NeverOverwrites == emis.last = "save" => \A f \in emis.before : f \in emis.files

\* A call whose hours include that of an existing file holding other rows than the call
\* selects for that hour.
C19_Witness ==
    /\ emis.last = "save" /\ emis.series # <<>>
    /\ \E f \in emis.before :
          /\ f.day = emis.series[1].day
          /\ f.hour \in FileHours(emis.series, emis.save_all)
          /\ f.rows # FileRows(emis.series, f.hour)

(***************************************************************************)
(* C20. With save_all=False no file is written for the hour of the most    *)
(* recent sample, so over the calls made on an append-only, time-sorted     *)
(* series within one day every file written holds all samples of its hour.  *)
(***************************************************************************)
OneDay == emis.series # <<>> /\ emis.series[1].day = emis.series[Len(emis.series)].day

InRows(t, rows) == \E k \in 1..Len(rows) : rows[k] = t

NoFileForLatestHour ==
    (emis.last = "save" /\ ~emis.save_all /\ OneDay) =>
        \A f \in emis.files \ emis.before : f.hour # emis.series[Len(emis.series)].hour

FilesHoldTheirHour ==
    (emis.only_complete /\ OneDay) =>
        \A f \in emis.files : \A i \in 1..Len(emis.series) :
            (emis.series[i].day = f.day /\ emis.series[i].hour = f.hour)
                => InRows(emis.series[i], f.rows)

C20_Claim == NoFileForLatestHour /\ FilesHoldTheirHour

\* The first half of C20 holds by itself.
C20_NoFileForLatestHour == NoFileForLatestHour

\* So does the second half for series whose samples all carry the microsecond of the first.
C20_SameMicrosecond ==
    (\A i \in 1..Len(emis.series) : emis.series[i].microsecond = emis.series[1].microsecond)
        => FilesHoldTheirHour

(***************************************************************************)
(* GeomSettings: update_geom and save_instrument_setup                     *)
(***************************************************************************)
\* The source names typed into the volcano entry, and those among them that
\* measurement_setup finds: for any other it raises UnrecognisedSourceError.
Volcanoes == { <<"E","t","n","a">>, <<"M","a","s","a","y","a">>, <<"N","o","w","h","e","r","e">> }
Recognised == { <<"E","t","n","a">>, <<"M","a","s","a","y","a">> }

\* The altitudes set in the spin box, as '{}'.format writes them.
Altitudes == { <<"1","0","0","0">>, <<"2","5","0","0">> }

\* The answers of the save dialog: a name without extension and one with.
DialogAnswers == { <<"s","e","t","u","p">>, <<"g","e","o","m",".","v","2">> }

\* The keys of geom_dict, in the order of the dictionary.
GeomKeys == << <<"l","a","t">>, <<"l","o","n">>, <<"a","l","t","i","t","u","d","e">>, <<"e","l","e","v">>, <<"a","z","i","m">> >>

GeomHeaderLine == <<"#"," ","G","e","o","m","e","t","r","y"," ","s","e","t","u","p"," ","f","i","l","e","\n">>

\* gather_geom(): geom_dict[key] = getattr(self, key) for each key.
GatherGeom(g) == << g.lat, g.lon, g.altitude, g.elev, g.azim >>

\* update_geom(): the error is caught and reported, then the geometry is gathered and
\* handed to the worker in either case.
UpdateGeomOf(g) ==
    [g EXCEPT !.unrecognised = g.volcano \notin Recognised,
              !.location = IF g.volcano \in Recognised THEN g.volcano ELSE g.location,
              !.geom_dict = GatherGeom(g),
              !.cam_geom = GatherGeom(g)]

\* '{}.txt'.format(filename.split('.')[0])
TxtName(filename) == Split(filename, ".")[1] \o <<".","t","x","t">>

\* The lines written to the settings file.
SetupLines(g) ==
    <<GeomHeaderLine, <<"v","o","l","c","a","n","o">> \o <<"=">> \o g.volcano \o <<"\n">>>>
        \o [i \in 1..Len(GeomKeys) |-> GeomKeys[i] \o <<"=">> \o g.geom_dict[i] \o <<"\n">>]

\* save_instrument_setup() when the dialog gives the answer.
SaveSetupOf(g, answer) ==
    LET u == UpdateGeomOf(g)
    IN  [u EXCEPT !.filename = TxtName(answer),
                  !.before = g.files,
                  !.files = {f \in g.files : f.name # TxtName(answer)}
                               \cup {[name |-> TxtName(answer), lines |-> SetupLines(u)]},
                  !.wrote = Some(TxtName(answer))]

\* The state after initiate_variables() has loaded the default setup.
InitGeom ==
    /\ geom = UpdateGeomOf(
                 [volcano |-> <<"E","t","n","a">>, lat |-> <<"3","7",".","7","5">>, lon |-> <<"1","5",".","0">>, altitude |-> <<"1","0","0","0">>,
                  elev |-> <<"1","0",".","0">>, azim |-> <<"2","7","0",".","0">>, geom_dict |-> <<>>, cam_geom |-> <<>>,
                  location |-> <<>>, unrecognised |-> FALSE, filename |-> <<"d","e","f","a","u","l","t",".","t","x","t">>,
                  files |-> {}, before |-> {}, wrote |-> None, last |-> "init"])
    /\ args = [on |-> 0, off |-> 0, on_2 |-> None, off_2 |-> None]
    /\ file = None
    /\ origin = "none"
    /\ ret = [kind |-> "none", val |-> None, exc |-> ""]
    /\ last = "idle"
    /\ prev = "none"
    /\ cron = Idle
    /\ emis = Idle
    /\ pi = Idle

\* The user types a source name into the volcano entry.
SetVolcano ==
    /\ \E v \in Volcanoes : geom' = [geom EXCEPT !.volcano = v, !.last = "edit"]
    /\ UNCHANGED <<schedVars, cron, emis, pi>>

\* The user sets the altitude.
SetAltitude ==
    /\ \E a \in Altitudes : geom' = [geom EXCEPT !.altitude = a, !.last = "edit"]
    /\ UNCHANGED <<schedVars, cron, emis, pi>>

\* update_geom()
UpdateGeom ==
    /\ geom' = [UpdateGeomOf(geom) EXCEPT !.last = "update"]
    /\ UNCHANGED <<schedVars, cron, emis, pi>>

\* save_instrument_setup()
SaveInstrumentSetup ==
    /\ \E answer \in DialogAnswers : geom' = [SaveSetupOf(geom, answer) EXCEPT !.last = "save"]
    /\ UNCHANGED <<schedVars, cron, emis, pi>>

NextGeom == SetVolcano \/ SetAltitude \/ UpdateGeom \/ SaveInstrumentSetup

SpecGeom == InitGeom /\ [][NextGeom]_vars

(***************************************************************************)
(* C14. save_instrument_setup never writes a geometry file for a setup     *)
(* that is not fully functional: when update_geom reports that the volcano *)
(* source is unrecognised, no settings file is written.                    *)
(***************************************************************************)
C14_Claim == (geom.last = "save" /\ geom.unrecognised) => geom.wrote = None

\* For a recognised source the file is written, with the name given the .txt extension.
C14_RecognisedIsSaved ==
    (geom.last = "save" /\ ~geom.unrecognised) =>
        /\ geom.wrote = Some(geom.filename)
        /\ \E f \in geom.files : f.name = geom.filename /\ f.lines = SetupLines(geom)

(***************************************************************************)
(* The schedule writer on single windows whose length is within half a     *)
(* minute of a whole hour                                                  *)
(***************************************************************************)
RoundTimes ==
    { HMS(0, 0, 0), HMS(0, 0, 30), HMS(6, 0, 0), HMS(11, 59, 30), HMS(17, 59, 31),
      HMS(23, 59, 45) }

RoundArgSets == [on : RoundTimes, off : RoundTimes, on_2 : {None}, off_2 : {None}]

InitRound ==
    /\ args \in RoundArgSets
    /\ file = None
    /\ origin = "none"
    /\ ret = [kind |-> "none", val |-> None, exc |-> ""]
    /\ last = "init"
    /\ prev = "none"
    /\ cron = Idle
    /\ emis = Idle
    /\ geom = Idle
    /\ pi = Idle

SpecRound == InitRound /\ [][Next]_vars

(***************************************************************************)
(* C23. Every ON/OFF line written by write_witty_schedule_file has its     *)
(* minute field in 0..59 and its hour field in 0..24, also for times of    *)
(* day with a seconds component.                                           *)
(***************************************************************************)
C23_Claim ==
    Written => \A i \in 1..Len(Segs) : Segs[i].m \in 0..59 /\ Segs[i].h \in 0..24

\* The fields are never negative for a single window, and the two of a line denote the
\* computed duration to the nearest minute (half a minute going to the even one).
C23_SingleFieldsDenoteDuration ==
    (Written /\ args.on < args.off) =>
        /\ \A i \in 1..Len(Segs) : Segs[i].m \in 0..60 /\ Segs[i].h \in 0..24
        /\ Dur(Segs[1]) = ToMinute(args.off - args.on)
        /\ Dur(Segs[2]) = ToMinute(DaySeconds - (args.off - args.on))

(***************************************************************************)
(* reboot_remote_pi and the script remote_pi_on.py: the power-on loop      *)
(***************************************************************************)
\* Longest list of IPs, the count up to which on-pulses are told apart, and the number
\* of log lines kept in view (the last ones).
MaxIps == 2
MaxPulses == 3
MaxLog == 2

PiIps == { "169.254.10.178", "169.254.10.180" }

\* pi_ip: any list for the function, config[pi_ip].split(',') (never empty) for the script.
PiIpLists(prog) ==
    IF prog = "reboot_remote_pi" THEN SeqsUpTo(PiIps, MaxIps) ELSE SeqsUpTo(PiIps, MaxIps) \ {<<>>}

IpSet(pi_ip) == {pi_ip[k] : k \in 1..Len(pi_ip)}

\* The state once the GPIO channels are set up as outputs.
PiStart(prog, pi_ip) ==
    [prog |-> prog, pi_ip |-> pi_ip,
     pc |-> IF prog = "reboot_remote_pi" THEN "off_high" ELSE "dicts",
     channel_on |-> "out", channel_off |-> IF prog = "reboot_remote_pi" THEN "out" ELSE "unused",
     off_outputs |-> 0, stat_dict |-> <<>>, stat_dict_on |-> <<>>, i |-> 1,
     log |-> <<>>, pulses |-> 0, answered |-> {}, pinged |-> None, was_on |-> FALSE]

InitPi ==
    /\ pi \in {PiStart(prog, pi_ip) :
                 prog \in {"reboot_remote_pi", "remote_pi_on"}, pi_ip \in SeqsUpTo(PiIps, MaxIps)}
    /\ pi.pi_ip \in PiIpLists(pi.prog)
    /\ args = [on |-> 0, off |-> 0, on_2 |-> None, off_2 |-> None]
    /\ file = None
    /\ origin = "none"
    /\ ret = [kind |-> "none", val |-> None, exc |-> ""]
    /\ last = "idle"
    /\ prev = "none"
    /\ cron = Idle
    /\ emis = Idle
    /\ geom = Idle

notPi == <<schedVars, cron, emis, geom>>

\* The last MaxLog lines of the log after a line is appended (the script prints it).
Logged(log, line) ==
    IF Len(log) < MaxLog THEN Append(log, line) ELSE Append(Tail(log), line)

\* GPIO.output(channel_off, GPIO.HIGH); sleep: first and third output of the off-pulse.
OffHigh ==
    /\ pi.pc = "off_high"
    /\ pi' = [pi EXCEPT !.channel_off = "HIGH", !.off_outputs = pi.off_outputs + 1,
                        !.pc = IF pi.off_outputs = 0 THEN "off_low" ELSE "dicts",
                        !.pinged = None]
    /\ UNCHANGED notPi

\* GPIO.output(channel_off, GPIO.LOW); sleep
OffLow ==
    /\ pi.pc = "off_low"
    /\ pi' = [pi EXCEPT !.channel_off = "LOW", !.off_outputs = pi.off_outputs + 1,
                        !.pc = "off_high", !.pinged = None]
    /\ UNCHANGED notPi

\* stat_dict_on[ip] = True and stat_dict[ip] = False for each ip of pi_ip.
Dicts ==
    /\ pi.pc = "dicts"
    /\ pi' = [pi EXCEPT !.stat_dict = [ip \in IpSet(pi.pi_ip) |-> FALSE],
                        !.stat_dict_on = [ip \in IpSet(pi.pi_ip) |-> TRUE],
                        !.pc = "while", !.pinged = None]
    /\ UNCHANGED notPi

\* Variant of LoopTest: while True
LoopTest_Always(stat_dict, stat_dict_on) == TRUE

\* stat_dict != stat_dict_on
LoopTest(stat_dict, stat_dict_on) == stat_dict # stat_dict_on

\* The test of the while loop.
While ==
    /\ pi.pc = "while"
    /\ pi' = [pi EXCEPT !.pc = IF LoopTest(pi.stat_dict, pi.stat_dict_on) THEN "on_high" ELSE "cleanup",
                        !.pinged = None]
    /\ UNCHANGED notPi

\* GPIO.output(channel_on, GPIO.HIGH); sleep
OnHigh ==
    /\ pi.pc = "on_high"
    /\ pi' = [pi EXCEPT !.channel_on = "HIGH", !.pc = "on_low", !.pinged = None]
    /\ UNCHANGED notPi

\* GPIO.output(channel_on, GPIO.LOW); sleep: one more on-pulse is sent.
OnLow ==
    /\ pi.pc = "on_low"
    /\ pi' = [pi EXCEPT !.channel_on = "LOW", !.pc = "for", !.i = 1,
                        !.pulses = IF pi.pulses < MaxPulses THEN pi.pulses + 1 ELSE MaxPulses,
                        !.pinged = None]
    /\ UNCHANGED notPi

\* The for loop is at an IP to attend to.
AtIp == pi.pc = "for" /\ pi.i <= Len(pi.pi_ip)

\* Variant of NeedsPing: every IP of the list is pinged in every round.
NeedsPing_Always(stat_dict, ip) == TRUE

\* if not stat_dict[ip]
NeedsPing(stat_dict, ip) == ~stat_dict[ip]

\* The IP is recorded as on: the for loop goes to the next.
Skip ==
    /\ AtIp /\ ~NeedsPing(pi.stat_dict, pi.pi_ip[pi.i])
    /\ pi' = [pi EXCEPT !.i = pi.i + 1, !.pinged = None]
    /\ UNCHANGED notPi

\* os.system("ping -w 1 ip") returns 0: the IP is logged and recorded as on.
PingOk ==
    /\ AtIp /\ NeedsPing(pi.stat_dict, pi.pi_ip[pi.i])
    /\ LET ip == pi.pi_ip[pi.i]
       IN  pi' = [pi EXCEPT !.stat_dict = [pi.stat_dict EXCEPT ![ip] = TRUE],
                            !.log = Logged(pi.log, <<ip, "now turned on">>),
                            !.answered = pi.answered \cup {ip},
                            !.was_on = pi.stat_dict[ip],
                            !.pinged = Some(ip), !.i = pi.i + 1]
    /\ UNCHANGED notPi

\* The ping returns another value: the IP is logged as not reachable.
PingFail ==
    /\ AtIp /\ NeedsPing(pi.stat_dict, pi.pi_ip[pi.i])
    /\ LET ip == pi.pi_ip[pi.i]
       IN  pi' = [pi EXCEPT !.log = Logged(pi.log, <<ip, "no longer reachable">>),
                            !.was_on = pi.stat_dict[ip],
                            !.pinged = Some(ip), !.i = pi.i + 1]
    /\ UNCHANGED notPi

\* The for loop is through the list: back to the test of the while loop.
ForEnd ==
    /\ pi.pc = "for" /\ pi.i > Len(pi.pi_ip)
    /\ pi' = [pi EXCEPT !.pc = "while", !.pinged = None]
    /\ UNCHANGED notPi

\* GPIO.cleanup()
Cleanup ==
    /\ pi.pc = "cleanup"
    /\ pi' = [pi EXCEPT !.channel_on = "in",
                        !.channel_off = IF pi.channel_off = "unused" THEN "unused" ELSE "in",
                        !.pc = "done", !.pinged = None]
    /\ UNCHANGED notPi

NextPi ==
    \/ OffHigh \/ OffLow \/ Dicts \/ While \/ OnHigh \/ OnLow
    \/ Skip \/ PingOk \/ PingFail \/ ForEnd \/ Cleanup

SpecPi == InitPi /\ [][NextPi]_vars

\* The program keeps running, and a Pi that is pinged again and again answers in the end.
SpecPiFair == SpecPi /\ WF_vars(NextPi) /\ SF_vars(PingOk)

(***************************************************************************)
(* C21. The loop is left and GPIO.cleanup runs only when every IP of the   *)
(* list has answered a ping; an IP recorded as on is not pinged again and  *)
(* not reset to off; in reboot_remote_pi the three outputs of the          *)
(* off-pulse are made before the first output of an on-pulse.              *)
(***************************************************************************)
LoopLeft == pi.pc \in {"cleanup", "done"}

OnPulseBegun == pi.channel_on # "out"

C21_ExitOnlyWhenAllAnswered ==
    /\ LoopLeft => IpSet(pi.pi_ip) \subseteq pi.answered
    /\ pi.pinged # None => ~pi.was_on
    /\ \A ip \in pi.answered : pi.stat_dict[ip]
    /\ (pi.prog = "reboot_remote_pi" /\ OnPulseBegun) => pi.off_outputs = 3

\* reboot_remote_pi is through with two IPs, one of which answered a round before the other.
C21_Witness ==
    /\ pi.prog = "reboot_remote_pi" /\ pi.pc = "done"
    /\ Len(pi.pi_ip) = 2 /\ pi.pi_ip[1] # pi.pi_ip[2]
    /\ pi.pulses >= 2 /\ pi.answered = IpSet(pi.pi_ip)
    /\ pi.log = << <<pi.pi_ip[2], "no longer reachable">>, <<pi.pi_ip[2], "now turned on">> >>

(***************************************************************************)
(* C22. The loop ends if and only if every IP answers a ping in the end:   *)
(* when each Pi that keeps being pinged answers at last, the loop is left; *)
(* it is left only with every IP answered; each test that finds an IP not  *)
(* on is followed by one more on-pulse; with an empty list no on-pulse is  *)
(* sent.                                                                   *)
(***************************************************************************)
AnotherPulse ==
    (pi.pc = "while" /\ \E ip \in DOMAIN pi.stat_dict : ~pi.stat_dict[ip]) => pi'.pc = "on_high"

C22_EndsIffAllAnswer ==
    /\ <>(pi.pc = "done")
    /\ [](pi.pc = "done" => IpSet(pi.pi_ip) \subseteq pi.answered)
    /\ [][AnotherPulse]_vars
    /\ [](pi.pi_ip = <<>> => (pi.pulses = 0 /\ pi.channel_on \in {"out", "in"}))

\* The loop is left after as many on-pulses as are told apart.
C22_Witness == pi.pc = "done" /\ pi.pi_ip # <<>> /\ pi.pulses = MaxPulses

\* With an empty list the function is through without an on-pulse.
C22_WitnessEmpty == pi.pc = "done" /\ pi.pi_ip = <<>> /\ pi.pulses = 0

====
